---- MODULE Spec2Model ----
(***************************************************************************)
(* A model of the geo-compliance analysis engine                           *)
(* (src/src/compliance_analyzer.py, class ComplianceAnalyzer).             *)
(*                                                                         *)
(* Text is modelled by TLA+ strings, so that substring matching, trimming, *)
(* lower-casing, formatting and JSON decoding are computed character by    *)
(* character as the Python code computes them.  Python values that the     *)
(* code handles without knowing their type (the fields decoded from the    *)
(* model reply) are tagged records [t, s, l].                              *)
(***************************************************************************)
EXTENDS Integers, Sequences, FiniteSets, TLC

\* ------------------------------------------------------------------------
\* Bounds of the model
\* ------------------------------------------------------------------------

\* The largest number of rows of an input table.
MaxRows == 2

\* ------------------------------------------------------------------------
\* Python strings
\* ------------------------------------------------------------------------

UpperChars == "ABCDEFGHIJKLMNOPQRSTUVWXYZ"
LowerChars == "abcdefghijklmnopqrstuvwxyz"

\* The i-th character of s, as a string of length one ("" outside s).
CharAt(s, i) == IF 1 <= i /\ i <= Len(s) THEN SubSeq(s, i, i) ELSE ""

\* str.lower() of the ASCII capital letters.
UpperToLower ==
    [c \in {CharAt(UpperChars, i) : i \in 1..Len(UpperChars)} |->
        CharAt(LowerChars, CHOOSE i \in 1..Len(UpperChars) : CharAt(UpperChars, i) = c)]

\* str.lower() of one character (every character of the texts used here that
\* is not an ASCII capital letter is unchanged by str.lower()).
LowerChar(c) == IF c \in DOMAIN UpperToLower THEN UpperToLower[c] ELSE c

RECURSIVE Lower(_)
\* str.lower()
Lower(s) == IF s = "" THEN "" ELSE LowerChar(Head(s)) \o Lower(Tail(s))

\* Python's `needle in hay` for strings.
Contains(needle, hay) ==
    \E i \in 1..(Len(hay) - Len(needle) + 1) :
        SubSeq(hay, i, i + Len(needle) - 1) = needle

\* str.startswith / str.endswith
StartsWith(s, prefix) ==
    Len(prefix) <= Len(s) /\ SubSeq(s, 1, Len(prefix)) = prefix
EndsWith(s, suffix) ==
    Len(suffix) <= Len(s) /\ SubSeq(s, Len(s) - Len(suffix) + 1, Len(s)) = suffix

\* The characters str.strip() removes (those occurring in the texts used here).
Whitespace == {" ", "\t", "\n", "\r"}

RECURSIVE LStrip(_)
LStrip(s) == IF s # "" /\ Head(s) \in Whitespace THEN LStrip(Tail(s)) ELSE s

RECURSIVE RStrip(_)
RStrip(s) ==
    IF s # "" /\ CharAt(s, Len(s)) \in Whitespace
    THEN RStrip(SubSeq(s, 1, Len(s) - 1))
    ELSE s

\* str.strip()
Strip(s) == RStrip(LStrip(s))

RECURSIVE Join(_, _)
\* sep.join(parts)
Join(sep, parts) ==
    IF parts = <<>> THEN ""
    ELSE IF Len(parts) = 1 THEN parts[1]
    ELSE parts[1] \o sep \o Join(sep, Tail(parts))

\* repr() of a str without quote characters, and of a list of such strs.
StrRepr(s) == "'" \o s \o "'"
ListRepr(l) == "[" \o Join(", ", [i \in 1..Len(l) |-> StrRepr(l[i])]) \o "]"

\* ------------------------------------------------------------------------
\* The taxonomies (ComplianceAnalyzer.__init__)
\* ------------------------------------------------------------------------

\* self.compliance_keywords: an insertion-ordered dict, category -> phrases.
compliance_keywords == <<
    [category |-> "age_gate",
     keywords |-> <<"age gate", "age verification", "age check", "under 18", "under 13", "minors">>],
    [category |-> "location_blocking",
     keywords |-> <<"location-based blocking", "geo-blocking", "geographic restriction", "country-specific">>],
    [category |-> "data_localization",
     keywords |-> <<"data localization", "data residency", "local data storage", "regional data">>],
    [category |-> "privacy",
     keywords |-> <<"privacy policy", "data protection", "personal information", "user data">>],
    [category |-> "content_moderation",
     keywords |-> <<"content moderation", "harmful content", "inappropriate content", "reporting">>],
    [category |-> "monetization",
     keywords |-> <<"advertising", "monetization", "revenue", "sponsored content", "influencer">>],
    [category |-> "social_features",
     keywords |-> <<"social media", "user-generated content", "comments", "sharing", "messaging">>],
    [category |-> "algorithm",
     keywords |-> <<"recommendation algorithm", "content recommendation", "personalized content">>],
    [category |-> "live_streaming",
     keywords |-> <<"live streaming", "live video", "broadcasting", "real-time content">>],
    [category |-> "ecommerce",
     keywords |-> <<"shopping", "e-commerce", "purchases", "transactions", "payments">>] >>

\* The keys of self.regulations
regulations ==
    {"DSA", "COPPA", "GDPR", "California_Protecting_Our_Kids", "Florida_Online_Protections",
     "Utah_Social_Media", "NCMEC", "CCPA"}

\* high_priority_categories of rule_based_analysis
high_priority_categories ==
    <<"age_gate", "location_blocking", "data_localization", "content_moderation">>

\* ------------------------------------------------------------------------
\* The keyword classifier (rule_based_analysis)
\* ------------------------------------------------------------------------

\* A faulty variant of CombinedText: the text is not lower-cased.
CombinedTextNoLower(title, description, documents) ==
    title \o " " \o description \o " " \o documents
\* A faulty variant of CombinedText: the fields are joined by line breaks.
CombinedTextOnLines(title, description, documents) ==
    Lower(title \o "\n" \o description \o "\n" \o documents)
\* combined_text = f"{title} {description} {documents}".lower()
CombinedText(title, description, documents) ==
    Lower(title \o " " \o description \o " " \o documents)

\* keyword.lower() of every phrase of the taxonomy: LoweredKeywords[i][j] is
\* the lower-cased j-th phrase of the i-th category.
LoweredKeywords ==
    [i \in 1..Len(compliance_keywords) |->
        [j \in 1..Len(compliance_keywords[i].keywords) |->
            Lower(compliance_keywords[i].keywords[j])]]

\* found = [keyword for keyword in keywords if keyword.lower() in combined_text]
\* for the i-th category: the matching phrases, in the taxonomy's order.
FoundIn(i, combined_text) ==
    LET keywords == compliance_keywords[i].keywords
        matching == SelectSeq([j \in 1..Len(keywords) |-> j],
                              LAMBDA j : Contains(LoweredKeywords[i][j], combined_text))
    IN  [k \in 1..Len(matching) |-> keywords[matching[k]]]

\* A faulty variant of FoundKeywords: without `if found:`, every category gets
\* an entry.
FoundKeywordsKeepsEmpty(combined_text) ==
    [i \in 1..Len(compliance_keywords) |->
        [category |-> compliance_keywords[i].category,
         keywords |-> FoundIn(i, combined_text)]]
\* The loop over self.compliance_keywords.items(): an entry per category with
\* a non-empty found list, in the dict's order.
FoundKeywords(combined_text) ==
    LET all == [i \in 1..Len(compliance_keywords) |->
                   [category |-> compliance_keywords[i].category,
                    keywords |-> FoundIn(i, combined_text)]]
    IN  SelectSeq(all, LAMBDA e : e.keywords # <<>>)

\* `cat in found_keywords`
HasCategory(found_keywords, cat) ==
    \E i \in 1..Len(found_keywords) : found_keywords[i].category = cat

\* A faulty variant of NeedsCompliance: any matched category counts.
NeedsComplianceAnyCategory(found_keywords) == found_keywords # <<>>
\* needs_compliance = any(cat in found_keywords for cat in high_priority_categories)
NeedsCompliance(found_keywords) ==
    \E j \in 1..Len(high_priority_categories) :
        HasCategory(found_keywords, high_priority_categories[j])

rule_based_analysis(title, description, documents) ==
    LET found_keywords == FoundKeywords(CombinedText(title, description, documents))
        needs_compliance == NeedsCompliance(found_keywords)
    IN  [needs_compliance |-> needs_compliance,
         found_keywords   |-> found_keywords,
         confidence       |-> IF needs_compliance THEN "high" ELSE "low"]

\* repr() of the found_keywords dict, as the override note's f-string renders it.
DictRepr(found_keywords) ==
    "{" \o Join(", ", [i \in 1..Len(found_keywords) |->
                          StrRepr(found_keywords[i].category) \o ": "
                              \o ListRepr(found_keywords[i].keywords)])
        \o "}"

\* ------------------------------------------------------------------------
\* Python values of unknown type: [t: type name, s: text, l: list items]
\* ------------------------------------------------------------------------

PyStr(s)  == [t |-> "str",      s |-> s,       l |-> <<>>]
PyNone    == [t |-> "NoneType", s |-> "None",  l |-> <<>>]
PyInt(s)  == [t |-> "int",      s |-> s,       l |-> <<>>]
PyBool(s) == [t |-> "bool",     s |-> s,       l |-> <<>>]
\* A list of strs.
PyList(l) == [t |-> "list",     s |-> "",      l |-> l]
\* A cell pandas read as a missing value.
PyNaN     == [t |-> "float",    s |-> "nan",   l |-> <<>>]

\* str(v), and v as an f-string renders it.
PyFormat(v) == IF v.t = "list" THEN ListRepr(v.l) ELSE v.s

\* bool(v) of a str: `if documents:`, `not title`
Truthy(s) == s # ""

\* The characters of a string, as a sequence of one-character strings.
Chars(s) == [i \in 1..Len(s) |-> CharAt(s, i)]

\* The outcome of `x += note` for a str note: a str is concatenated, a list is
\* extended by the note's characters, any other type raises TypeError.
IAddRaises(v) == v.t \notin {"str", "list"}
IAdd(v, note) ==
    IF v.t = "str" THEN PyStr(v.s \o note)
    ELSE IF v.t = "list" THEN PyList(v.l \o Chars(note))
    ELSE v
TypeErrorText(v) == "unsupported operand type(s) for +=: '" \o v.t \o "' and 'str'"

\* ------------------------------------------------------------------------
\* json.loads, on the JSON texts used here: an object whose values are strings
\* without escapes, integers, true, false, null, or arrays of those, with
\* white space between tokens.  A parse step yields [ok, val, pos, members]:
\* pos is the index after what was parsed.
\* ------------------------------------------------------------------------

JsonWs == {" ", "\t", "\n", "\r"}
Digits == {"0", "1", "2", "3", "4", "5", "6", "7", "8", "9"}

JsonFail == [ok |-> FALSE, val |-> PyNone, pos |-> 0, members |-> <<>>]
JsonOk(val, pos) == [ok |-> TRUE, val |-> val, pos |-> pos, members |-> <<>>]
JsonObject(members, pos) == [ok |-> TRUE, val |-> PyNone, pos |-> pos, members |-> members]

RECURSIVE SkipWs(_, _)
SkipWs(s, i) == IF CharAt(s, i) \in JsonWs THEN SkipWs(s, i + 1) ELSE i

\* The first index >= i of character c in s, 0 when there is none.
FindChar(s, c, i) ==
    IF \E j \in i..Len(s) : CharAt(s, j) = c
    THEN CHOOSE j \in i..Len(s) :
             CharAt(s, j) = c /\ \A k \in i..(j - 1) : CharAt(s, k) # c
    ELSE 0

\* The last index of character c in s, 0 when there is none.
FindLastChar(s, c) ==
    IF \E j \in 1..Len(s) : CharAt(s, j) = c
    THEN CHOOSE j \in 1..Len(s) :
             CharAt(s, j) = c /\ \A k \in (j + 1)..Len(s) : CharAt(s, k) # c
    ELSE 0

\* A string literal whose opening quote is s[i] and closing quote s[j].
StringBetween(s, i, j) ==
    IF j = 0 THEN JsonFail
    ELSE IF \E k \in (i + 1)..(j - 1) : CharAt(s, k) \in {"\\", "\n", "\t", "\r"}
    THEN JsonFail
    ELSE JsonOk(PyStr(SubSeq(s, i + 1, j - 1)), j + 1)

\* A string literal starting at the quote s[i].
ParseString(s, i) == StringBetween(s, i, FindChar(s, "\"", i + 1))

RECURSIVE DigitsEnd(_, _)
DigitsEnd(s, i) == IF CharAt(s, i) \in Digits THEN DigitsEnd(s, i + 1) ELSE i

\* Whether the literal word starts at s[i].
WordAt(s, i, word) ==
    i + Len(word) - 1 <= Len(s) /\ SubSeq(s, i, i + Len(word) - 1) = word

\* A string, a literal or an integer starting at s[i].
ParseScalar(s, i) ==
    IF CharAt(s, i) = "\"" THEN ParseString(s, i)
    ELSE IF WordAt(s, i, "null") THEN JsonOk(PyNone, i + 4)
    ELSE IF WordAt(s, i, "true") THEN JsonOk(PyBool("True"), i + 4)
    ELSE IF WordAt(s, i, "false") THEN JsonOk(PyBool("False"), i + 5)
    ELSE IF CharAt(s, i) \in Digits
    THEN JsonOk(PyInt(SubSeq(s, i, DigitsEnd(s, i) - 1)), DigitsEnd(s, i))
    ELSE JsonFail

RECURSIVE ParseElements(_, _, _)
\* The elements of an array from s[i] on, after those in acc (each kept as its
\* text), up to the closing bracket.
ElementsAfter(s, acc, v, e) ==
    IF ~v.ok THEN JsonFail
    ELSE IF CharAt(s, e) = "," THEN ParseElements(s, e + 1, Append(acc, PyFormat(v.val)))
    ELSE IF CharAt(s, e) = "]" THEN JsonOk(PyList(Append(acc, PyFormat(v.val))), e + 1)
    ELSE JsonFail
ElementsFrom(s, acc, v) == ElementsAfter(s, acc, v, SkipWs(s, v.pos))
ParseElements(s, i, acc) == ElementsFrom(s, acc, ParseScalar(s, SkipWs(s, i)))

\* An array starting at the bracket s[i]; j is the index of its first token.
ArrayFrom(s, j) ==
    IF CharAt(s, j) = "]" THEN JsonOk(PyList(<<>>), j + 1) ELSE ParseElements(s, j, <<>>)

\* The value whose first token is at s[i].
ValueAt(s, i) ==
    IF CharAt(s, i) = "[" THEN ArrayFrom(s, SkipWs(s, i + 1)) ELSE ParseScalar(s, i)
ParseValue(s, i) == ValueAt(s, SkipWs(s, i))

RECURSIVE ParseMembers(_, _, _)
\* The members of an object from s[i] on, after those in acc, up to the
\* closing brace.
MembersAfter(s, acc, key, v, e) ==
    IF ~v.ok THEN JsonFail
    ELSE IF CharAt(s, e) = ","
    THEN ParseMembers(s, e + 1, Append(acc, [key |-> key.val.s, val |-> v.val]))
    ELSE IF CharAt(s, e) = "}"
    THEN JsonObject(Append(acc, [key |-> key.val.s, val |-> v.val]), e + 1)
    ELSE JsonFail
MemberValue(s, acc, key, v) == MembersAfter(s, acc, key, v, SkipWs(s, v.pos))
MemberColon(s, acc, key, c) ==
    IF key.ok /\ CharAt(s, c) = ":"
    THEN MemberValue(s, acc, key, ParseValue(s, c + 1))
    ELSE JsonFail
MemberKey(s, acc, key) == MemberColon(s, acc, key, SkipWs(s, key.pos))
MemberAt(s, acc, k) ==
    IF CharAt(s, k) = "\"" THEN MemberKey(s, acc, ParseString(s, k)) ELSE JsonFail
ParseMembers(s, i, acc) == MemberAt(s, acc, SkipWs(s, i))

\* A JSON object starting at the brace s[i]; j is the index of its first token.
ObjectFrom(s, j) ==
    IF CharAt(s, j) = "}" THEN JsonObject(<<>>, j + 1) ELSE ParseMembers(s, j, <<>>)
ParseObject(s, i) == ObjectFrom(s, SkipWs(s, i + 1))

\* json.loads(text) for a text that starts with a brace: the decoded object's
\* members, or ok = FALSE where json.loads raises JSONDecodeError (a malformed
\* object, or extra data after it).
JsonEnd(text, o) == IF o.ok /\ SkipWs(text, o.pos) = Len(text) + 1 THEN o ELSE JsonFail
JsonLoads(text) == JsonEnd(text, ParseObject(text, 1))

\* A faulty variant of Get: a null value counts as a missing key
\* (`parsed.get(key) or default`).
GetNullAsMissing(members, key, default) ==
    IF \E i \in 1..Len(members) : members[i].key = key /\ members[i].val # PyNone
    THEN members[CHOOSE i \in 1..Len(members) :
                     members[i].key = key /\ members[i].val # PyNone
                     /\ \A k \in (i + 1)..Len(members) : members[k].key # key].val
    ELSE default
\* dict.get(key, default): the last member with that key wins in json.loads.
Get(members, key, default) ==
    IF \E i \in 1..Len(members) : members[i].key = key
    THEN members[CHOOSE i \in 1..Len(members) :
                     members[i].key = key
                     /\ \A k \in (i + 1)..Len(members) : members[k].key # key].val
    ELSE default

\* ------------------------------------------------------------------------
\* The response parser (_parse_llm_response) and the model classifier
\* (llm_analysis)
\* ------------------------------------------------------------------------

\* A faulty variant of JsonMatch: a non-greedy search, up to the first "}".
JsonMatchFirstClose(response) ==
    LET first == FindChar(response, "{", 1)
        close == FindChar(response, "}", first + 1)
    IN  IF first = 0 \/ close = 0 THEN "" ELSE SubSeq(response, first, close)
\* re.search(r'\{.*\}', response, re.DOTALL): the span from the first "{" to
\* the last "}" when the last "}" follows the first "{"; "" when no match.
JsonMatch(response) ==
    LET first == FindChar(response, "{", 1)
        last == FindLastChar(response, "}")
    IN  IF first = 0 \/ last < first THEN "" ELSE SubSeq(response, first, last)

\* A faulty variant of ParseFallback: the raw text is not kept.
ParseFallbackLost(response) ==
    [needs_compliance    |-> PyStr("Needs Review"),
     reasoning           |-> PyStr("No reasoning provided"),
     related_regulations |-> PyList(<<>>),
     confidence          |-> PyStr("low")]
\* The `else` branch: no JSON span in the reply.
ParseFallback(response) ==
    [needs_compliance    |-> PyStr("Needs Review"),
     reasoning           |-> PyStr(response),
     related_regulations |-> PyList(<<>>),
     confidence          |-> PyStr("low")]

\* The `except` branch: re.search or json.loads raised.
ParseFailed(response) ==
    [needs_compliance    |-> PyStr("Needs Review"),
     reasoning           |-> PyStr("Failed to parse response: " \o PyFormat(response)),
     related_regulations |-> PyList(<<>>),
     confidence          |-> PyStr("low")]

\* A faulty variant of ParsedFields: a needs_compliance outside the three
\* verdicts is replaced by "Needs Review".
ParsedFieldsCoerced(members) ==
    [needs_compliance    |-> IF Get(members, "needs_compliance", PyStr("Needs Review"))
                                    \in {PyStr("Yes"), PyStr("No")}
                             THEN Get(members, "needs_compliance", PyStr("Needs Review"))
                             ELSE PyStr("Needs Review"),
     reasoning           |-> Get(members, "reasoning", PyStr("No reasoning provided")),
     related_regulations |-> Get(members, "related_regulations", PyList(<<>>)),
     confidence          |-> Get(members, "confidence", PyStr("medium"))]
\* The dict returned after a successful decode.
ParsedFields(members) ==
    [needs_compliance    |-> Get(members, "needs_compliance", PyStr("Needs Review")),
     reasoning           |-> Get(members, "reasoning", PyStr("No reasoning provided")),
     related_regulations |-> Get(members, "related_regulations", PyList(<<>>)),
     confidence          |-> Get(members, "confidence", PyStr("medium"))]

\* _parse_llm_response(response); response is the reply's content, a str or
\* None (re.search raises TypeError on None, which the except branch absorbs).
_parse_llm_response(response) ==
    IF response.t # "str" THEN ParseFailed(response)
    ELSE LET span == JsonMatch(response.s)
             decoded == JsonLoads(span)
         IN  IF span = "" THEN ParseFallback(response.s)
             ELSE IF decoded.ok THEN ParsedFields(decoded.members)
             ELSE ParseFailed(response)

\* The outcome of the external text-completion call: a reply with its content,
\* or an exception with its str().
CallReturned(content) == [kind |-> "returned", content |-> content, cause |-> ""]
CallRaised(cause) == [kind |-> "raised", content |-> PyNone, cause |-> cause]
NoCall == [kind |-> "none", content |-> PyNone, cause |-> ""]

\* A faulty variant of AnalysisFailed: the cause without the fixed prefix.
AnalysisFailedRaw(cause) ==
    [needs_compliance    |-> PyStr("Needs Review"),
     reasoning           |-> PyStr(cause),
     related_regulations |-> PyList(<<>>),
     confidence          |-> PyStr("low")]
\* The except branch of llm_analysis.
AnalysisFailed(cause) ==
    [needs_compliance    |-> PyStr("Needs Review"),
     reasoning           |-> PyStr("Analysis failed due to error: " \o cause),
     related_regulations |-> PyList(<<>>),
     confidence          |-> PyStr("low")]

\* llm_analysis, given the outcome of its one external call.
llm_analysis(outcome) ==
    IF outcome.kind = "raised" THEN AnalysisFailed(outcome.cause)
    ELSE _parse_llm_response(outcome.content)

\* ------------------------------------------------------------------------
\* Reconciliation (analyze_feature, "Combine results")
\* ------------------------------------------------------------------------

\* A faulty variant of OverrideFires: every verdict but "Yes" is overridden.
OverrideAnyNonYes(rule_results, llm_results) ==
    /\ rule_results.needs_compliance
    /\ rule_results.confidence = "high"
    /\ llm_results.needs_compliance # PyStr("Yes")
\* A faulty variant of OverrideFires: the model's verdict is not looked at.
OverrideIgnoresModel(rule_results, llm_results) ==
    /\ rule_results.needs_compliance
    /\ rule_results.confidence = "high"
\* A faulty variant of OverrideFires: the model's "No" is compared with "no".
OverrideLowercaseNo(rule_results, llm_results) ==
    /\ rule_results.needs_compliance
    /\ rule_results.confidence = "high"
    /\ llm_results.needs_compliance = PyStr("no")
\* A faulty variant of OverrideFires: every verdict that begins with "No".
OverrideNoPrefix(rule_results, llm_results) ==
    /\ rule_results.needs_compliance
    /\ rule_results.confidence = "high"
    /\ llm_results.needs_compliance.t = "str"
    /\ StartsWith(llm_results.needs_compliance.s, "No")
\* The condition of the override.
OverrideFires(rule_results, llm_results) ==
    /\ rule_results.needs_compliance
    /\ rule_results.confidence = "high"
    /\ llm_results.needs_compliance = PyStr("No")

\* A faulty variant of OverrideNote: the keywords are left out.
OverrideNoteNoKeywords(rule_results) ==
    " (Overridden by rule-based analysis)"
\* A faulty variant of OverrideNote: only the high-priority matches are listed.
OverrideNoteHighPriorityOnly(rule_results) ==
    " (Overridden by rule-based analysis: found keywords "
        \o DictRepr(SelectSeq(rule_results.found_keywords,
                              LAMBDA e : \E j \in 1..Len(high_priority_categories) :
                                             e.category = high_priority_categories[j]))
        \o ")"
\* The note the override appends to the reasoning.
OverrideNote(rule_results) ==
    " (Overridden by rule-based analysis: found keywords "
        \o DictRepr(rule_results.found_keywords) \o ")"

\* A faulty variant of CombinedResult: the confidence is the rule verdict's.
CombinedResultRuleConfidence(title, rule_results, llm_results) ==
    [title               |-> title,
     needs_compliance    |-> llm_results.needs_compliance,
     reasoning           |-> llm_results.reasoning,
     related_regulations |-> llm_results.related_regulations,
     rule_based_keywords |-> rule_results.found_keywords,
     confidence          |-> PyStr(rule_results.confidence)]
\* final_result before the override.
CombinedResult(title, rule_results, llm_results) ==
    [title               |-> title,
     needs_compliance    |-> llm_results.needs_compliance,
     reasoning           |-> llm_results.reasoning,
     related_regulations |-> llm_results.related_regulations,
     rule_based_keywords |-> rule_results.found_keywords,
     confidence          |-> llm_results.confidence]

\* Whether the reconciliation raises: the override's `+=` on a reasoning that
\* is neither a str nor a list.
CombineRaises(rule_results, llm_results) ==
    OverrideFires(rule_results, llm_results) /\ IAddRaises(llm_results.reasoning)

\* A faulty variant of FinalResult: the override also raises the confidence.
FinalResultRaisesConfidence(title, rule_results, llm_results) ==
    LET combined == CombinedResult(title, rule_results, llm_results)
    IN  IF OverrideFires(rule_results, llm_results)
        THEN [combined EXCEPT
                 !.needs_compliance = PyStr("Yes"),
                 !.reasoning = IAdd(llm_results.reasoning, OverrideNote(rule_results)),
                 !.confidence = PyStr("high")]
        ELSE combined
\* final_result as analyze_feature returns it.
FinalResult(title, rule_results, llm_results) ==
    LET combined == CombinedResult(title, rule_results, llm_results)
    IN  IF OverrideFires(rule_results, llm_results)
        THEN [combined EXCEPT
                 !.needs_compliance = PyStr("Yes"),
                 !.reasoning = IAdd(llm_results.reasoning, OverrideNote(rule_results))]
        ELSE combined

\* ------------------------------------------------------------------------
\* The batch (analyze_csv): pure parts
\* ------------------------------------------------------------------------

\* required_columns of analyze_csv
required_columns == <<"Title", "Description">>

\* A faulty variant of MissingColumns: only Title is required.
MissingColumnsTitleOnly(columns) ==
    SelectSeq(<<"Title">>, LAMBDA col : col \notin columns)
\* missing_columns = [col for col in required_columns if col not in df.columns]
MissingColumns(columns) ==
    SelectSeq(required_columns, LAMBDA col : col \notin columns)

\* The message of the ValueError raised for missing columns.
MissingColumnsError(columns) ==
    "Missing required columns: " \o ListRepr(MissingColumns(columns))

\* A faulty variant of CellText: a missing cell is read as the empty text.
CellTextNanEmpty(row, col) ==
    IF row[col].t = "float" THEN "" ELSE Strip(PyFormat(row[col]))
\* str(row[col]).strip() for a column of the table.
CellText(row, col) == Strip(PyFormat(row[col]))

\* str(row.get('Documents', '')).strip()
DocumentsText(table, row) ==
    IF "Documents" \in table.columns THEN CellText(row, "Documents") ELSE ""

\* A faulty variant of SkipsRow: only the title is tested.
SkipsRowTitleOnly(row) == ~Truthy(CellText(row, "Title"))
\* `if not title or not description: continue`
SkipsRow(row) ==
    ~Truthy(CellText(row, "Title")) \/ ~Truthy(CellText(row, "Description"))

\* A faulty variant of AppendResult: the newest result comes first.
PrependResult(results, analysis) == <<analysis>> \o results
\* results.append(analysis)
AppendResult(results, analysis) == Append(results, analysis)

\* A faulty variant of WritesOutput: the table is written whatever the path.
WritesOutputAlways(output_path) == TRUE
\* `if output_path:` before results_df.to_csv
WritesOutput(output_path) == Truthy(output_path)

\* A faulty variant of IsPdfPath: the extension is compared as written.
IsPdfPathCaseSensitive(documents) == Truthy(documents) /\ EndsWith(documents, ".pdf")
\* `documents.lower().endswith('.pdf')` under `if documents:`
IsPdfPath(documents) == Truthy(documents) /\ EndsWith(Lower(documents), ".pdf")

\* One row of results_df: the result's fields under the output column names,
\* in the order of output_columns.
OutputRow(result) ==
    [Title              |-> result.title,
     NeedsGeoCompliance |-> result.needs_compliance,
     Reasoning          |-> result.reasoning,
     RelatedRegulations |-> result.related_regulations,
     RuleBasedKeywords  |-> result.rule_based_keywords,
     Confidence         |-> result.confidence]

\* results_df = pd.DataFrame(results), renamed and reordered.
ResultsDf(results) == [i \in 1..Len(results) |-> OutputRow(results[i])]

\* The text to_csv writes for a cell: a missing value (None) is written as the
\* empty field (na_rep=''), every other object as its str().
CsvCell(v) == IF v.t = "NoneType" THEN "" ELSE PyFormat(v)

\* results_df.to_csv(output_path, index=False): every cell as its text.
CsvRow(out_row) ==
    <<out_row.Title,
      CsvCell(out_row.NeedsGeoCompliance),
      CsvCell(out_row.Reasoning),
      CsvCell(out_row.RelatedRegulations),
      DictRepr(out_row.RuleBasedKeywords),
      CsvCell(out_row.Confidence)>>
ToCsv(results_df) == [i \in 1..Len(results_df) |-> CsvRow(results_df[i])]

\* ------------------------------------------------------------------------
\* Inputs
\* ------------------------------------------------------------------------

\* Arguments of a direct call of analyze_feature.
Titles == {"Age Gate", "Simple Calculator", "Content age", "Data Privacy"}
Descriptions ==
    {"gate for MINORS under 18", "Basic mathematical operations",
     "privacy policy and user data", "Geo-Blocking by country",
     "Harmful Content Reporting tool"}
DocumentArgs == {"", "regional data notes", "Spec.PDF"}

\* What text extraction can return for a PDF path ("" also when it fails).
PdfTexts == {"Data Residency rules", "meeting notes"}

\* Replies of the text-completion service (message.content).
ReplyYes ==
    "{\"needs_compliance\": \"Yes\", \"reasoning\": \"Test reasoning\", \"related_regulations\": [\"DSA\", \"GDPR\"], \"confidence\": \"high\"}"
ReplyNo ==
    "{\"needs_compliance\": \"No\", \"reasoning\": \"No compliance needed\", \"related_regulations\": [], \"confidence\": \"high\"}"
ReplyReview ==
    "Here you go:\n{\"needs_compliance\":\"Needs Review\",\"reasoning\":\"unclear\",\"confidence\":\"medium\"}\n"
ReplyNoNullReasoning ==
    "{\"needs_compliance\": \"No\", \"reasoning\": null, \"confidence\": \"low\"}"
ReplyNoListReasoning ==
    "{\"needs_compliance\": \"No\", \"reasoning\": [\"a\", \"b\"]}"
ReplyNoOnly == "{\"needs_compliance\": \"No\"}"
ReplyNoFullStop == "{\"needs_compliance\": \"No.\", \"reasoning\": \"not needed\"}"
ReplyNoLowConfidence ==
    "{\"needs_compliance\": \"No\", \"reasoning\": \"internal tool\", \"related_regulations\": [\"GDPR\"], \"confidence\": \"low\"}"
ReplyLowercaseNo ==
    "{\"needs_compliance\": \"no\", \"reasoning\": \"nothing\", \"related_regulations\": [\"LGPD\"], \"confidence\": \"certain\"}"
ReplyNoVerdictKey ==
    "{\"reasoning\": \"looks fine\", \"related_regulations\": [\"CCPA\"], \"confidence\": \"high\"}"
ReplyBoolVerdict ==
    "{\"needs_compliance\": true, \"related_regulations\": [\"COPPA\"], \"confidence\": 3}"
ReplyEmptyObject == "{}"
ReplyTrailingBrace == ReplyNo \o " as requested :-}"
ReplyNotJson == "This is not JSON"
ReplyBrokenJson == "{needs_compliance: No}"
ReplyBracesReversed == "} no {"

Replies ==
    {PyStr(ReplyYes), PyStr(ReplyNo), PyStr(ReplyReview), PyStr(ReplyNoNullReasoning),
     PyStr(ReplyNoListReasoning), PyStr(ReplyNoOnly), PyStr(ReplyLowercaseNo),
     PyStr(ReplyEmptyObject), PyStr(ReplyTrailingBrace), PyStr(ReplyNotJson),
     PyStr(ReplyBrokenJson), PyStr(ReplyBracesReversed), PyStr(""), PyNone,
     PyStr(ReplyNoVerdictKey), PyStr(ReplyBoolVerdict), PyStr(ReplyNoLowConfidence),
     PyStr(ReplyNoFullStop)}

\* The replies drawn in a batch: one of each kind of model verdict.
BatchReplies ==
    {PyStr(ReplyYes), PyStr(ReplyNo), PyStr(ReplyNoNullReasoning), PyStr(ReplyNotJson)}

\* str(e) of the exceptions the external call raises.
Causes == {"API Error", "Request timed out."}
BatchCauses == {"API Error"}

\* Rows of an input table (cells as pandas read them).
Row(t, d, docs) == [Title |-> t, Description |-> d, Documents |-> docs]
Rows ==
    {Row(PyStr("Age Gate "), PyStr("Verify users under 18"), PyStr("")),
     Row(PyStr("Simple Calculator"), PyStr("Basic mathematical operations"), PyNaN),
     Row(PyStr("  "), PyStr("Content Moderation queue"), PyStr("policy.pdf")),
     Row(PyNaN, PyStr(" privacy policy"), PyStr("Geo-Blocking notes"))}

RECURSIVE SeqsUpTo(_, _)
\* The sequences over S of length at most n.
SeqsUpTo(S, n) ==
    IF n = 0 THEN {<<>>}
    ELSE LET shorter == SeqsUpTo(S, n - 1)
         IN  shorter \cup {Append(q, x) : q \in shorter, x \in S}

ColumnSets ==
    {{"Title", "Description", "Documents"}, {"Title", "Description"},
     {"Title", "WrongColumn"}, {"Description", "Documents"}, {"WrongColumn"}}

\* The input tables: df = pd.read_csv(csv_path)
Tables == [columns : ColumnSets, rows : SeqsUpTo(Rows, MaxRows)]

\* output_path: None (modelled as "") or a path.
OutputPaths == {"", "results.csv"}

\* ------------------------------------------------------------------------
\* State
\* ------------------------------------------------------------------------

VARIABLES
    entry,          \* the method called: "analyze_csv" or "analyze_feature"
    df,             \* analyze_csv: the table read from csv_path
    output_path,    \* analyze_csv: its output_path argument ("" for None)
    pc,             \* "start", "loop", "feature", "calling", "done", "failed"
    index,          \* analyze_csv: the number of rows the loop has consumed
    title,          \* analyze_feature: its arguments
    description,
    documents,
    document_text,  \* analyze_feature: the resolved supporting text
    pdf,            \* text extraction for this feature: "none", "extracted", "failed"
    prompt_text,    \* the supporting text the prompt of the call was built from
    rule_results,   \* analyze_feature: the keyword classifier's verdict
    call,           \* the outcome of the last external text-completion call
    llm_results,    \* analyze_feature: the model classifier's verdict
    final_result,   \* analyze_feature: the value it returned last
    feature,        \* the last analyze_feature call: "none", "calling", "returned", "raised"
    results,        \* analyze_csv: the results list
    calls,          \* external text-completion calls issued so far
    output_file,    \* the file at output_path: [written, rows]
    returned_df,    \* analyze_csv: [returned, rows], the table it returned
    error           \* the message of the exception the entry method raised ("" if none)

vars ==
    <<entry, df, output_path, pc, index, title, description, documents,
      document_text, pdf, prompt_text, rule_results, call, llm_results,
      final_result, feature, results, calls, output_file, returned_df, error>>

NoVerdict ==
    [needs_compliance |-> PyNone, reasoning |-> PyNone,
     related_regulations |-> PyNone, confidence |-> PyNone]
NoRuleVerdict == [needs_compliance |-> FALSE, found_keywords |-> <<>>, confidence |-> ""]
NoResult == CombinedResult("", NoRuleVerdict, NoVerdict)
NoTable == [columns |-> {}, rows |-> <<>>]

InitCsv ==
    /\ entry = "analyze_csv"
    /\ df \in Tables
    /\ output_path \in OutputPaths
    /\ pc = "start"
    /\ title = "" /\ description = "" /\ documents = ""

InitFeature ==
    /\ entry = "analyze_feature"
    /\ df = NoTable
    /\ output_path = ""
    /\ pc = "feature"
    /\ title \in Titles /\ description \in Descriptions /\ documents \in DocumentArgs

Init ==
    /\ (InitCsv \/ InitFeature)
    /\ index = 0
    /\ document_text = ""
    /\ pdf = "none"
    /\ prompt_text = ""
    /\ rule_results = NoRuleVerdict
    /\ call = NoCall
    /\ llm_results = NoVerdict
    /\ final_result = NoResult
    /\ feature = "none"
    /\ results = <<>>
    /\ calls = 0
    /\ output_file = [written |-> FALSE, rows |-> <<>>]
    /\ returned_df = [returned |-> FALSE, rows |-> <<>>]
    /\ error = ""

\* ------------------------------------------------------------------------
\* analyze_feature
\* ------------------------------------------------------------------------

\* analyze_feature(t, d, docs) up to its external call: the supporting text is
\* resolved (extracted from a PDF path: `text` on success, "" on failure),
\* the keyword classifier runs, the prompt is built and the call is issued.
BeginFeature(t, d, docs) ==
    /\ title' = t
    /\ description' = d
    /\ documents' = docs
    /\ \E outcome \in (IF IsPdfPath(docs)
                       THEN {[pdf |-> "extracted", text |-> x] : x \in PdfTexts}
                                \cup {[pdf |-> "failed", text |-> ""]}
                       ELSE {[pdf |-> "none", text |-> docs]}) :
          /\ pdf' = outcome.pdf
          /\ document_text' = outcome.text
          /\ rule_results' = rule_based_analysis(t, d, outcome.text)
          /\ prompt_text' = outcome.text
    /\ calls' = calls + 1
    /\ feature' = "calling"
    /\ pc' = "calling"
    /\ UNCHANGED <<entry, df, output_path, index, call, llm_results, final_result,
                   results, output_file, returned_df, error>>

\* A direct call of analyze_feature.
AnalyzeFeatureCall ==
    /\ pc = "feature"
    /\ BeginFeature(title, description, documents)

\* analyze_feature from the return of its external call: the reply is parsed
\* (or the failure absorbed), the verdicts are reconciled, and the result is
\* returned: to the caller of a direct call, or to analyze_csv, which appends it
\* and goes to the next row.  An exception of the reconciliation propagates
\* through analyze_csv (which logs and re-raises it).
Complete(outcome) ==
    LET llm == llm_analysis(outcome)
    IN  /\ call' = outcome
        /\ llm_results' = llm
        /\ IF CombineRaises(rule_results, llm)
           THEN /\ feature' = "raised"
                /\ pc' = "failed"
                /\ error' = TypeErrorText(llm.reasoning)
                /\ UNCHANGED <<final_result, results, index>>
           ELSE /\ feature' = "returned"
                /\ final_result' = FinalResult(title, rule_results, llm)
                /\ error' = error
                /\ IF entry = "analyze_csv"
                   THEN /\ results' = AppendResult(results, final_result')
                        /\ index' = index + 1
                        /\ pc' = "loop"
                   ELSE /\ pc' = "done"
                        /\ UNCHANGED <<results, index>>
        /\ UNCHANGED <<entry, df, output_path, title, description, documents,
                       document_text, pdf, prompt_text, rule_results, calls,
                       output_file, returned_df>>

\* The external call returns a reply.
LlmReturn ==
    /\ pc = "calling"
    /\ \E content \in (IF entry = "analyze_csv" THEN BatchReplies ELSE Replies) :
          Complete(CallReturned(content))

\* A faulty variant of LlmRaise: llm_analysis lets the exception of the call
\* through, and it ends the entry method.
LlmRaiseAborts ==
    /\ pc = "calling"
    /\ \E cause \in (IF entry = "analyze_csv" THEN BatchCauses ELSE Causes) :
          /\ call' = CallRaised(cause)
          /\ error' = cause
    /\ feature' = "raised"
    /\ pc' = "failed"
    /\ UNCHANGED <<entry, df, output_path, index, title, description, documents,
                   document_text, pdf, prompt_text, rule_results, llm_results,
                   final_result, results, calls, output_file, returned_df>>

\* The external call raises.
LlmRaise ==
    /\ pc = "calling"
    /\ \E cause \in (IF entry = "analyze_csv" THEN BatchCauses ELSE Causes) :
          Complete(CallRaised(cause))

\* ------------------------------------------------------------------------
\* analyze_csv
\* ------------------------------------------------------------------------

\* The column validation fails: ValueError, logged and re-raised.
ColumnsMissing ==
    /\ pc = "start"
    /\ MissingColumns(df.columns) # <<>>
    /\ pc' = "failed"
    /\ error' = MissingColumnsError(df.columns)
    /\ UNCHANGED <<entry, df, output_path, index, title, description, documents,
                   document_text, pdf, prompt_text, rule_results, call, llm_results,
                   final_result, feature, results, calls, output_file, returned_df>>

\* The column validation passes: results = [] and the loop starts.
ColumnsOk ==
    /\ pc = "start"
    /\ MissingColumns(df.columns) = <<>>
    /\ pc' = "loop"
    /\ results' = <<>>
    /\ UNCHANGED <<entry, df, output_path, index, title, description, documents,
                   document_text, pdf, prompt_text, rule_results, call, llm_results,
                   final_result, feature, calls, output_file, returned_df, error>>

\* The loop takes a row whose title or description is empty: `continue`.
SkipRow ==
    /\ pc = "loop"
    /\ index < Len(df.rows)
    /\ SkipsRow(df.rows[index + 1])
    /\ index' = index + 1
    /\ UNCHANGED <<entry, df, output_path, pc, title, description, documents,
                   document_text, pdf, prompt_text, rule_results, call, llm_results,
                   final_result, feature, results, calls, output_file, returned_df,
                   error>>

\* A faulty variant of AnalyzeRow: the call of a row is issued without waiting
\* for the call before it.
AnalyzeRowNoWait ==
    /\ entry = "analyze_csv"
    /\ pc \in {"loop", "calling"}
    /\ index < Len(df.rows)
    /\ ~SkipsRow(df.rows[index + 1])
    /\ BeginFeature(CellText(df.rows[index + 1], "Title"),
                    CellText(df.rows[index + 1], "Description"),
                    DocumentsText(df, df.rows[index + 1]))
\* The loop takes a row and calls analyze_feature on it.
AnalyzeRow ==
    /\ pc = "loop"
    /\ index < Len(df.rows)
    /\ ~SkipsRow(df.rows[index + 1])
    /\ BeginFeature(CellText(df.rows[index + 1], "Title"),
                    CellText(df.rows[index + 1], "Description"),
                    DocumentsText(df, df.rows[index + 1]))

\* The loop is over: results_df is built, written if output_path is given,
\* and returned.
Finish ==
    /\ pc = "loop"
    /\ index = Len(df.rows)
    /\ pc' = "done"
    /\ returned_df' = [returned |-> TRUE, rows |-> ResultsDf(results)]
    /\ output_file' = IF WritesOutput(output_path)
                      THEN [written |-> TRUE, rows |-> ToCsv(ResultsDf(results))]
                      ELSE output_file
    /\ UNCHANGED <<entry, df, output_path, index, title, description, documents,
                   document_text, pdf, prompt_text, rule_results, call, llm_results,
                   final_result, feature, results, calls, error>>

Next ==
    \/ AnalyzeFeatureCall
    \/ LlmReturn
    \/ LlmRaise
    \/ ColumnsMissing
    \/ ColumnsOk
    \/ SkipRow
    \/ AnalyzeRow
    \/ Finish

Spec == Init /\ [][Next]_vars

\* The program runs on: every external call returns or raises, and the
\* interpreter takes the next step of the method.
FairSpec ==
    /\ Spec
    /\ WF_vars(LlmRaise \/ LlmReturn)
    /\ WF_vars(ColumnsMissing \/ ColumnsOk \/ SkipRow \/ AnalyzeRow \/ Finish
                   \/ AnalyzeFeatureCall)

\* ------------------------------------------------------------------------
\* Properties
\* ------------------------------------------------------------------------

Yes == PyStr("Yes")
No == PyStr("No")
NeedsReview == PyStr("Needs Review")

\* The last analyze_feature call has ended: rule_results, call, llm_results
\* (and final_result, when it returned) are those of that one call.
Ended == feature \in {"returned", "raised"}
Returned == feature = "returned"

\* The rule verdict is a high-confidence one.
RuleHigh == rule_results.needs_compliance /\ rule_results.confidence = "high"

\* Every matched phrase of the rule verdict occurs in the text.
NamesMatchedKeywords(text) ==
    \A i \in 1..Len(rule_results.found_keywords) :
        \A j \in 1..Len(rule_results.found_keywords[i].keywords) :
            Contains(rule_results.found_keywords[i].keywords[j], text)

\* What follows the model's reasoning in the final reasoning.
AppendedNote ==
    SubSeq(final_result.reasoning.s, Len(llm_results.reasoning.s) + 1,
           Len(final_result.reasoning.s))

\* C1: whenever the rule verdict is needs_compliance with confidence high and
\* the model verdict is exactly "No", analyze_feature yields a final verdict
\* "Yes" whose reasoning is the model's reasoning followed by an override note
\* that contains the matched keywords.
C1_OverrideForcesYes ==
    (Ended /\ RuleHigh /\ llm_results.needs_compliance = No)
        => /\ Returned
           /\ final_result.needs_compliance = Yes
           /\ final_result.reasoning.t = "str"
           /\ StartsWith(final_result.reasoning.s, PyFormat(llm_results.reasoning))
           /\ Contains("Overridden by rule-based analysis", AppendedNote)
           /\ NamesMatchedKeywords(AppendedNote)

\* C2 as claimed: whatever the model's outcome, a high-confidence rule verdict
\* makes the final verdict "Yes".
C2_HighAlwaysYes ==
    (Returned /\ rule_results.confidence = "high")
        => final_result.needs_compliance = Yes

\* C2 as amended: under a high-confidence rule verdict the final verdict is
\* "Yes" when the model said "Yes" or "No", and otherwise the model's own
\* verdict ("Needs Review" after a failed call or an undecodable reply); it is
\* never "No".
C2_HighNeverNo ==
    (Returned /\ rule_results.confidence = "high")
        => /\ final_result.needs_compliance # No
           /\ llm_results.needs_compliance \in {Yes, No}
                 => final_result.needs_compliance = Yes
           /\ llm_results.needs_compliance \notin {Yes, No}
                 => final_result.needs_compliance = llm_results.needs_compliance
           /\ (call.kind = "raised" \/ call.content \in {PyStr(ReplyNotJson), PyStr(ReplyBrokenJson)})
                 => final_result.needs_compliance = NeedsReview

C2_Witness ==
    /\ Returned /\ rule_results.confidence = "high"
    /\ call.kind = "raised"
    /\ final_result.needs_compliance = NeedsReview

\* C3: when the override condition does not hold (in particular when the rule
\* verdict's needs_compliance is false), the final verdict's needs_compliance,
\* reasoning, related_regulations and confidence are the model verdict's.
C3_ModelVerbatim ==
    (Returned /\ ~(RuleHigh /\ llm_results.needs_compliance = No))
        => /\ final_result.needs_compliance = llm_results.needs_compliance
           /\ final_result.reasoning = llm_results.reasoning
           /\ final_result.related_regulations = llm_results.related_regulations
           /\ final_result.confidence = llm_results.confidence

C3_Witness ==
    /\ Returned
    /\ ~rule_results.needs_compliance
    /\ rule_results.found_keywords # <<>>
    /\ llm_results.needs_compliance = No
    /\ final_result.needs_compliance = No
    /\ final_result.reasoning = PyStr("No compliance needed")

\* C4: a model verdict of "Yes" or "Needs Review" is never changed, whatever
\* the rule verdict; with a model "Yes" under a high-confidence rule verdict the
\* final reasoning is the model's, without an override note.
C4_YesAndReviewKept ==
    (Returned /\ llm_results.needs_compliance \in {Yes, NeedsReview})
        => /\ final_result.needs_compliance = llm_results.needs_compliance
           /\ (llm_results.needs_compliance = Yes /\ RuleHigh)
                 => /\ final_result.reasoning = llm_results.reasoning
                    /\ ~Contains("Overridden", PyFormat(final_result.reasoning))

C4_Witness ==
    /\ Returned /\ RuleHigh
    /\ llm_results.needs_compliance = Yes
    /\ final_result.needs_compliance = Yes
    /\ final_result.reasoning = PyStr("Test reasoning")

\* C5: when the text-completion call fails, the final verdict is "Needs
\* Review" with confidence "low", no related regulations and a reasoning that
\* begins with "Analysis failed due to error:", whatever the keyword classifier
\* found.
C5_FailedCallNeedsReview ==
    (Ended /\ call.kind = "raised")
        => /\ Returned
           /\ final_result.needs_compliance = NeedsReview
           /\ final_result.confidence = PyStr("low")
           /\ final_result.related_regulations = PyList(<<>>)
           /\ final_result.reasoning.t = "str"
           /\ StartsWith(final_result.reasoning.s, "Analysis failed due to error:")

C5_Witness ==
    /\ Returned /\ call.kind = "raised"
    /\ RuleHigh
    /\ HasCategory(final_result.rule_based_keywords, "age_gate")
    /\ final_result.needs_compliance = NeedsReview

\* The text the keyword classifier of the last call matched against.
MatchedText == Lower(title \o " " \o description \o " " \o document_text)

\* A phrase of the i-th category of the taxonomy occurs in the text.
CategoryOccurs(i, text) ==
    \E j \in 1..Len(compliance_keywords[i].keywords) :
        Contains(compliance_keywords[i].keywords[j], text)

\* A phrase of one of the four high-priority categories occurs in the text.
HighPriorityOccurs(text) ==
    \E i \in 1..Len(compliance_keywords) :
        /\ compliance_keywords[i].category \in
               {"age_gate", "location_blocking", "data_localization", "content_moderation"}
        /\ CategoryOccurs(i, text)

\* C6: the keyword classifier's needs_compliance is true iff a phrase of one
\* of the four high-priority categories is matched, and its confidence is high
\* iff needs_compliance is true, low otherwise.
C6_RuleVerdict ==
    (feature # "none")
        => /\ rule_results.needs_compliance <=> HighPriorityOccurs(MatchedText)
           /\ rule_results.confidence =
                  (IF HighPriorityOccurs(MatchedText) THEN "high" ELSE "low")

\* Matches in other categories only: needs_compliance stays false.
C6_Witness ==
    /\ feature # "none"
    /\ rule_results.found_keywords # <<>>
    /\ HasCategory(rule_results.found_keywords, "privacy")
    /\ ~rule_results.needs_compliance
    /\ rule_results.confidence = "low"

\* The text holds a "{" followed somewhere by a "}".
HasBraceSpan(text) ==
    \E i \in 1..Len(text) : \E j \in (i + 1)..Len(text) :
        CharAt(text, i) = "{" /\ CharAt(text, j) = "}"

\* C7: _parse_llm_response raises for no reply (no reply that was received ends
\* in the verdict of a failed analysis), and a reply text without a {...} span
\* is parsed to "Needs Review", confidence "low", no related regulations and
\* the raw text as the reasoning.
C7_NoJsonFallback ==
    /\ (Ended /\ call.kind = "returned")
          => ~StartsWith(PyFormat(llm_results.reasoning), "Analysis failed due to error:")
    /\ (Ended /\ call.kind = "returned" /\ call.content.t = "str"
              /\ ~HasBraceSpan(call.content.s))
          => /\ llm_results.needs_compliance = NeedsReview
             /\ llm_results.confidence = PyStr("low")
             /\ llm_results.related_regulations = PyList(<<>>)
             /\ llm_results.reasoning = call.content

C7_Witness ==
    /\ Ended /\ call.kind = "returned"
    /\ call.content = PyStr(ReplyBracesReversed)
    /\ llm_results.reasoning = PyStr(ReplyBracesReversed)
    /\ llm_results.needs_compliance = NeedsReview

\* C8: when the external call fails, llm_analysis returns "Needs Review", the
\* reasoning "Analysis failed due to error: <cause>", no related regulations
\* and confidence "low".
C8_FailedCallVerdict ==
    (Ended /\ call.kind = "raised")
        => /\ llm_results.needs_compliance = NeedsReview
           /\ llm_results.reasoning = PyStr("Analysis failed due to error: " \o call.cause)
           /\ llm_results.related_regulations = PyList(<<>>)
           /\ llm_results.confidence = PyStr("low")

C8_Witness ==
    /\ Ended /\ call = CallRaised("Request timed out.")
    /\ llm_results.reasoning = PyStr("Analysis failed due to error: Request timed out.")

\* The number of rows of the table that the loop does not skip.
RECURSIVE CountAnalyzed(_)
CountAnalyzed(rows) ==
    IF rows = <<>> THEN 0
    ELSE (IF Truthy(Strip(PyFormat(Head(rows).Title)))
             /\ Truthy(Strip(PyFormat(Head(rows).Description)))
          THEN 1 ELSE 0) + CountAnalyzed(Tail(rows))

\* A step of a batch in which the external call of a row fails: the row yields
\* a "Needs Review" result, the earlier results are kept and the loop goes on.
C9_FailureStep ==
    (entry = "analyze_csv" /\ pc = "calling" /\ call'.kind = "raised")
        => /\ pc' = "loop"
           /\ index' = index + 1
           /\ Len(results') = Len(results) + 1
           /\ SubSeq(results', 1, Len(results)) = results
           /\ results'[Len(results')].title = title
           /\ results'[Len(results')].needs_compliance = NeedsReview

\* A step of a batch that ends the analysis of a row: the earlier results are
\* kept, and the result appended is that of this row's texts and of this row's
\* call alone.
C9_RowStep ==
    (entry = "analyze_csv" /\ pc = "calling" /\ pc' = "loop")
        => /\ SubSeq(results', 1, Len(results)) = results
           /\ results'[Len(results')] =
                  FinalResult(Strip(PyFormat(df.rows[index + 1].Title)),
                              rule_based_analysis(Strip(PyFormat(df.rows[index + 1].Title)),
                                                  Strip(PyFormat(df.rows[index + 1].Description)),
                                                  document_text),
                              llm_analysis(call'))

\* C9: in a batch, a failed text-completion call on a row does not abort the
\* batch and does not affect the other rows: the row yields a "Needs Review"
\* result, the results of the other rows are those of their own texts and
\* calls, and a batch that completes has a result for every row not skipped.
C9_FailureIsolated ==
    /\ [][C9_FailureStep /\ C9_RowStep]_vars
    /\ []((entry = "analyze_csv" /\ pc = "done")
             => /\ index = Len(df.rows)
                /\ Len(results) = CountAnalyzed(df.rows))

C9_Witness ==
    /\ entry = "analyze_csv" /\ pc = "done"
    /\ Len(results) = 2
    /\ StartsWith(PyFormat(results[1].reasoning), "Analysis failed due to error:")
    /\ results[1].needs_compliance = NeedsReview
    /\ results[2].needs_compliance = Yes
    /\ call.kind = "returned"

\* A required column is absent from the table.
LacksRequired == "Title" \notin df.columns \/ "Description" \notin df.columns

\* C10: when the table lacks Title or Description, analyze_csv fails with a
\* validation error that names exactly the missing columns, and no row is
\* classified, no external call is made and no output is written.
C10_ValidationFirst ==
    (entry = "analyze_csv" /\ LacksRequired)
        => /\ pc \in {"start", "failed"}
           /\ index = 0 /\ feature = "none" /\ results = <<>> /\ calls = 0
           /\ ~output_file.written /\ ~returned_df.returned
           /\ pc = "failed"
                 => /\ StartsWith(error, "Missing required columns: [")
                    /\ Contains("'Title'", error) <=> "Title" \notin df.columns
                    /\ Contains("'Description'", error) <=> "Description" \notin df.columns
                    /\ ~Contains("Documents", error) /\ ~Contains("WrongColumn", error)

C10_Witness ==
    /\ entry = "analyze_csv" /\ pc = "failed"
    /\ df.columns = {"Title", "WrongColumn"}
    /\ Len(df.rows) > 0
    /\ error = "Missing required columns: ['Description']"

\* The trimmed texts of a row's cells, as the loop reads them.
TrimmedTitle(row) == Strip(PyFormat(row.Title))
TrimmedDescription(row) == Strip(PyFormat(row.Description))

\* The rows with a non-empty trimmed title and description, in their order.
Kept(rows) ==
    SelectSeq(rows, LAMBDA row : TrimmedTitle(row) # "" /\ TrimmedDescription(row) # "")

\* A batch whose column validation passed.
Batch == entry = "analyze_csv" /\ ~LacksRequired

\* analyze_csv is over: it returned or it raised.
BatchOver == pc \in {"done", "failed"}

\* C11: in a batch, a row whose trimmed title or description is empty is left
\* out of the output without an error, and every row whose trimmed title and
\* description are both non-empty yields exactly one output row: when
\* analyze_csv is over, it has raised nothing and the output rows are as many as
\* the rows with both texts non-empty.
C11_SkipEmptyRows ==
    (Batch /\ BatchOver)
        => /\ error = ""
           /\ Len(results) = Len(Kept(df.rows))
           /\ returned_df.returned /\ Len(returned_df.rows) = Len(Kept(df.rows))

\* The titles of a sequence of results, and the trimmed titles of rows.
ResultTitles(rs) == [i \in 1..Len(rs) |-> rs[i].title]
RowTitles(rows) == [i \in 1..Len(rows) |-> TrimmedTitle(rows[i])]

\* In every state of a batch the results are those of the non-skipped rows
\* among the rows the loop has consumed, in their order.
C12_ResultsFollowRows ==
    Batch => /\ ResultTitles(results) = RowTitles(Kept(SubSeq(df.rows, 1, index)))
             /\ returned_df.returned
                   => /\ index = Len(df.rows)
                      /\ [i \in 1..Len(returned_df.rows) |-> returned_df.rows[i].Title]
                             = RowTitles(Kept(df.rows))

\* C12: the result sequence of analyze_csv keeps the input row order: the
\* output rows are the non-skipped input rows in their relative order, each
\* with the trimmed title of its row, none duplicated or reordered; a step
\* only ever adds one result at the end.
C12_InputOrderKept ==
    /\ []C12_ResultsFollowRows
    /\ [][Batch => \/ results' = results
                   \/ /\ Len(results') = Len(results) + 1
                      /\ SubSeq(results', 1, Len(results)) = results
                      /\ results'[Len(results')].title = TrimmedTitle(df.rows[index + 1])]_vars

\* Two rows given in the reverse of the alphabetical order, the first with a
\* trailing blank in its title.
C12_Witness ==
    /\ Batch /\ pc = "done"
    /\ RowTitles(df.rows) = <<"Simple Calculator", "Age Gate">>
    /\ df.rows[2].Title = PyStr("Age Gate ")
    /\ ResultTitles(results) = <<"Simple Calculator", "Age Gate">>
    /\ Len(returned_df.rows) = 2

\* C13: once the column validation has passed, analyze_csv never fails because
\* of what a model reply holds: whatever the reply, it is absorbed into the
\* row's result and no exception ends the batch.
C13_ReplyNeverAborts ==
    (Batch /\ call.kind = "returned") => (pc # "failed" /\ error = "" /\ feature # "raised")

\* C14: analyze_csv writes the result table to the output path iff a path is
\* given and the batch completed; every completed run returns the result table
\* (one row per result, under the output column names); the table written is
\* the table returned, cell by cell as text.
C14_OutputWritten ==
    (entry = "analyze_csv")
        => /\ output_file.written <=> (pc = "done" /\ output_path # "")
           /\ returned_df.returned <=> pc = "done"
           /\ pc # "done" => (output_file.rows = <<>> /\ returned_df.rows = <<>>)
           /\ pc = "done"
                 => /\ Len(returned_df.rows) = Len(results)
                    /\ \A i \in 1..Len(results) :
                          /\ returned_df.rows[i].Title = results[i].title
                          /\ returned_df.rows[i].NeedsGeoCompliance = results[i].needs_compliance
                          /\ returned_df.rows[i].Reasoning = results[i].reasoning
                          /\ returned_df.rows[i].RelatedRegulations = results[i].related_regulations
                          /\ returned_df.rows[i].RuleBasedKeywords = results[i].rule_based_keywords
                          /\ returned_df.rows[i].Confidence = results[i].confidence
           /\ output_file.written
                 => /\ Len(output_file.rows) = Len(returned_df.rows)
                    /\ \A i \in 1..Len(returned_df.rows) :
                          /\ Len(output_file.rows[i]) = 6
                          /\ output_file.rows[i][1] = returned_df.rows[i].Title
                          /\ returned_df.rows[i].NeedsGeoCompliance.t = "str"
                                => output_file.rows[i][2] = returned_df.rows[i].NeedsGeoCompliance.s
                          /\ returned_df.rows[i].Reasoning.t = "str"
                                => output_file.rows[i][3] = returned_df.rows[i].Reasoning.s
                          /\ returned_df.rows[i].Reasoning.t = "NoneType"
                                => output_file.rows[i][3] = ""
                          /\ returned_df.rows[i].Confidence.t = "str"
                                => output_file.rows[i][6] = returned_df.rows[i].Confidence.s

C14_Witness ==
    /\ entry = "analyze_csv" /\ pc = "done"
    /\ output_path = "results.csv"
    /\ output_file.written /\ returned_df.returned
    /\ Len(output_file.rows) = 2
    /\ output_file.rows[1][1] = "Age Gate"
    /\ output_file.rows[1][2] = "Yes"
    /\ output_file.rows[2][2] = "Needs Review"

\* The three verdicts of the enumeration.
Verdicts == {Yes, No, NeedsReview}

\* C15 as claimed: every final verdict of analyze_feature has needs_compliance
\* in {"Yes", "No", "Needs Review"}, whatever the model replied.
C15_VerdictInEnum ==
    Returned => final_result.needs_compliance \in Verdicts

\* The replies that hold no decodable JSON object.
Undecodable ==
    {PyStr(ReplyNotJson), PyStr(ReplyBrokenJson), PyStr(ReplyBracesReversed), PyStr(""), PyNone}

\* C15 as amended: the final needs_compliance is one of the three verdicts
\* when the call failed, when the reply holds no decodable object, when the
\* decoded object has no needs_compliance, and when its needs_compliance is one
\* of the three; a decoded value outside the set is not coerced: it is the final
\* needs_compliance unchanged.
C15_VerdictInEnumOrPassedThrough ==
    Returned
        => /\ call.kind = "raised" => final_result.needs_compliance = NeedsReview
           /\ (call.kind = "returned" /\ call.content \in Undecodable)
                 => final_result.needs_compliance = NeedsReview
           /\ (call.kind = "returned"
                   /\ call.content \in {PyStr(ReplyNoVerdictKey), PyStr(ReplyEmptyObject)})
                 => final_result.needs_compliance = NeedsReview
           /\ llm_results.needs_compliance \in Verdicts
                 => final_result.needs_compliance \in Verdicts
           /\ llm_results.needs_compliance \notin Verdicts
                 => final_result.needs_compliance = llm_results.needs_compliance
           /\ call = CallReturned(PyStr(ReplyLowercaseNo))
                 => final_result.needs_compliance = PyStr("no")
           /\ call = CallReturned(PyStr(ReplyBoolVerdict))
                 => final_result.needs_compliance = PyBool("True")

\* A lower-case "no" under a high-confidence rule verdict: not overridden, not
\* coerced.
C15_Witness ==
    /\ Returned /\ RuleHigh
    /\ call = CallReturned(PyStr(ReplyLowercaseNo))
    /\ final_result.needs_compliance = PyStr("no")
    /\ final_result.confidence = PyStr("certain")

\* The external calls of a batch that have not ended yet: those issued less
\* those whose analyze_feature returned (a result each) or raised.
Outstanding == calls - Len(results) - (IF feature = "raised" THEN 1 ELSE 0)

\* A step of a batch that issues an external call: none is outstanding, the
\* call is for the next row of the input, and the results of all non-skipped
\* rows before it have been appended.
C16_IssueStep ==
    (Batch /\ calls' # calls)
        => /\ calls' = calls + 1
           /\ pc = "loop" /\ Outstanding = 0
           /\ index' = index /\ index < Len(df.rows)
           /\ title' = TrimmedTitle(df.rows[index + 1])
           /\ description' = TrimmedDescription(df.rows[index + 1])
           /\ ResultTitles(results) = RowTitles(Kept(SubSeq(df.rows, 1, index)))

\* C16: rows are processed strictly one at a time in input order: at most one
\* external call is outstanding at any moment, the loop consumes the rows one
\* by one, and the call of a row is issued only after the result of every
\* earlier non-skipped row has been appended.
C16_OneAtATime ==
    /\ [](Batch => /\ Outstanding \in {0, 1}
                   /\ Outstanding = 1 <=> pc = "calling")
    /\ [][C16_IssueStep]_vars
    /\ [][Batch => index' \in {index, index + 1}]_vars

\* The call of the second row is outstanding, the first row's result is in.
C16_Witness ==
    /\ Batch /\ pc = "calling"
    /\ index = 1 /\ Len(results) = 1 /\ calls = 2
    /\ title = TrimmedTitle(df.rows[2])
    /\ results[1].title = TrimmedTitle(df.rows[1])

\* C17: provided every external call eventually returns or fails, a batch
\* over a finite table with the required columns eventually completes, having
\* visited every row exactly once, even if every external call fails.
C17_BatchCompletes ==
    Batch ~> (pc = "done" /\ index = Len(df.rows) /\ returned_df.returned)

\* The place of a category in the taxonomy, and of a phrase in the i-th
\* category's list.
TaxonomyIndex(cat) ==
    CHOOSE i \in 1..Len(compliance_keywords) : compliance_keywords[i].category = cat
PhraseIndex(i, phrase) ==
    CHOOSE j \in 1..Len(compliance_keywords[i].keywords) :
        compliance_keywords[i].keywords[j] = phrase

\* The phrases of the i-th category that occur in the text.
PhrasesOccurring(i, text) ==
    {compliance_keywords[i].keywords[j] : j \in
        {j \in 1..Len(compliance_keywords[i].keywords) :
            Contains(compliance_keywords[i].keywords[j], text)}}

\* An entry of found_keywords: a category of the taxonomy with a non-empty
\* list of exactly the phrases that occur, in the taxonomy's phrase order.
EntryExact(e, text) ==
    /\ \E i \in 1..Len(compliance_keywords) : compliance_keywords[i].category = e.category
    /\ e.keywords # <<>>
    /\ {e.keywords[a] : a \in 1..Len(e.keywords)}
           = PhrasesOccurring(TaxonomyIndex(e.category), text)
    /\ \A a, b \in 1..Len(e.keywords) :
           a < b => PhraseIndex(TaxonomyIndex(e.category), e.keywords[a])
                        < PhraseIndex(TaxonomyIndex(e.category), e.keywords[b])

\* C18: found_keywords has an entry for exactly the categories with a phrase
\* occurring in the combined text, never an entry with an empty list; the
\* categories come in taxonomy order, each entry lists exactly the matching
\* phrases in the taxonomy's phrase order, and found_keywords is empty when no
\* phrase of any category occurs.
C18_FoundKeywordsExact ==
    (feature # "none")
        => /\ \A i \in 1..Len(compliance_keywords) :
                 HasCategory(rule_results.found_keywords, compliance_keywords[i].category)
                     <=> PhrasesOccurring(i, MatchedText) # {}
           /\ \A k \in 1..Len(rule_results.found_keywords) :
                 EntryExact(rule_results.found_keywords[k], MatchedText)
           /\ \A a, b \in 1..Len(rule_results.found_keywords) :
                 a < b => TaxonomyIndex(rule_results.found_keywords[a].category)
                              < TaxonomyIndex(rule_results.found_keywords[b].category)
           /\ (\A i \in 1..Len(compliance_keywords) : PhrasesOccurring(i, MatchedText) = {})
                 => rule_results.found_keywords = <<>>

\* "minors" comes before "under 18" in the text and after it in the taxonomy.
C18_Witness ==
    /\ feature # "none"
    /\ description = "gate for MINORS under 18"
    /\ rule_results.found_keywords =
           <<[category |-> "age_gate", keywords |-> <<"age gate", "under 18", "minors">>],
             [category |-> "data_localization", keywords |-> <<"regional data">>]>>

\* C19: each llm_analysis invocation issues exactly one external call and
\* never retries after a failure; over a batch, one call is issued for each
\* non-skipped row and none for a skipped row, so that the number of calls
\* equals the number of output rows.
C19_OneCallPerRow ==
    /\ (entry = "analyze_feature" /\ Ended) => calls = 1
    /\ (Batch /\ BatchOver)
          => /\ calls = Len(Kept(df.rows))
             /\ calls = Len(results)
             /\ returned_df.returned /\ calls = Len(returned_df.rows)

\* The replies that hold one JSON object that decodes.
Decodable ==
    {PyStr(ReplyYes), PyStr(ReplyNo), PyStr(ReplyReview), PyStr(ReplyNoNullReasoning),
     PyStr(ReplyNoListReasoning), PyStr(ReplyNoOnly), PyStr(ReplyLowercaseNo),
     PyStr(ReplyEmptyObject), PyStr(ReplyNoVerdictKey), PyStr(ReplyBoolVerdict),
     PyStr(ReplyNoLowConfidence), PyStr(ReplyNoFullStop)}

\* The object of the reply text has the key.
HasKey(text, key) == Contains("\"" \o key \o "\":", text)

\* The model verdict with these four values.
Verdict(nc, reasoning, related, confidence) ==
    [needs_compliance |-> nc, reasoning |-> reasoning,
     related_regulations |-> related, confidence |-> confidence]

\* C20: when the reply holds a JSON object that decodes, _parse_llm_response
\* returns the decoded values of needs_compliance, reasoning,
\* related_regulations and confidence, and "Needs Review", "No reasoning
\* provided", an empty sequence and "medium" for each key that is missing,
\* whatever the other keys.
C20_DecodedOrDefault ==
    (Ended /\ call.kind = "returned" /\ call.content \in Decodable)
        => /\ ~HasKey(call.content.s, "needs_compliance")
                 => llm_results.needs_compliance = NeedsReview
           /\ ~HasKey(call.content.s, "reasoning")
                 => llm_results.reasoning = PyStr("No reasoning provided")
           /\ ~HasKey(call.content.s, "related_regulations")
                 => llm_results.related_regulations = PyList(<<>>)
           /\ ~HasKey(call.content.s, "confidence")
                 => llm_results.confidence = PyStr("medium")
           /\ call.content = PyStr(ReplyYes)
                 => llm_results = Verdict(Yes, PyStr("Test reasoning"),
                                          PyList(<<"DSA", "GDPR">>), PyStr("high"))
           /\ call.content = PyStr(ReplyReview)
                 => llm_results = Verdict(NeedsReview, PyStr("unclear"),
                                          PyList(<<>>), PyStr("medium"))
           /\ call.content = PyStr(ReplyNoNullReasoning)
                 => llm_results = Verdict(No, PyNone, PyList(<<>>), PyStr("low"))
           /\ call.content = PyStr(ReplyNoListReasoning)
                 => llm_results = Verdict(No, PyList(<<"a", "b">>), PyList(<<>>), PyStr("medium"))
           /\ call.content = PyStr(ReplyNoOnly)
                 => llm_results = Verdict(No, PyStr("No reasoning provided"),
                                          PyList(<<>>), PyStr("medium"))
           /\ call.content = PyStr(ReplyLowercaseNo)
                 => llm_results = Verdict(PyStr("no"), PyStr("nothing"),
                                          PyList(<<"LGPD">>), PyStr("certain"))
           /\ call.content = PyStr(ReplyNoVerdictKey)
                 => llm_results = Verdict(NeedsReview, PyStr("looks fine"),
                                          PyList(<<"CCPA">>), PyStr("high"))
           /\ call.content = PyStr(ReplyBoolVerdict)
                 => llm_results = Verdict(PyBool("True"), PyStr("No reasoning provided"),
                                          PyList(<<"COPPA">>), PyInt("3"))
           /\ call.content = PyStr(ReplyEmptyObject)
                 => llm_results = Verdict(NeedsReview, PyStr("No reasoning provided"),
                                          PyList(<<>>), PyStr("medium"))

\* Only the reasoning is missing: its default stands beside the decoded values.
C20_Witness ==
    /\ Ended /\ call = CallReturned(PyStr(ReplyBoolVerdict))
    /\ llm_results.reasoning = PyStr("No reasoning provided")
    /\ llm_results.related_regulations = PyList(<<"COPPA">>)
    /\ llm_results.confidence = PyInt("3")

\* The reasoning of the parser's except branch for a raw reply text.
FailedToParse(text) == PyStr("Failed to parse response: " \o text)

\* C21: the parser takes the span from the first "{" to the last "}" of the
\* reply; when that span does not decode as JSON (a valid object followed by
\* text that holds a "}", or a malformed object), the result is "Needs
\* Review", no related regulations, confidence "low" and the reasoning "Failed
\* to parse response: " followed by the raw text; prose around a single object
\* is cut away and the object is decoded.
C21_GreedySpanFallback ==
    (Ended /\ call.kind = "returned")
        => /\ call.content = PyStr(ReplyTrailingBrace)
                 => llm_results = Verdict(NeedsReview, FailedToParse(ReplyTrailingBrace),
                                          PyList(<<>>), PyStr("low"))
           /\ call.content = PyStr(ReplyBrokenJson)
                 => llm_results = Verdict(NeedsReview, FailedToParse(ReplyBrokenJson),
                                          PyList(<<>>), PyStr("low"))
           /\ call.content = PyStr(ReplyReview)
                 => llm_results.reasoning = PyStr("unclear")
           /\ (call.content.t = "str" /\ HasBraceSpan(call.content.s)
                   /\ call.content \notin Decodable)
                 => llm_results = Verdict(NeedsReview, FailedToParse(call.content.s),
                                          PyList(<<>>), PyStr("low"))

\* A valid object followed by text with a closing brace.
C21_Witness ==
    /\ Ended /\ call = CallReturned(PyStr(ReplyTrailingBrace))
    /\ StartsWith(ReplyTrailingBrace, ReplyNo)
    /\ llm_results.needs_compliance = NeedsReview
    /\ llm_results.reasoning = FailedToParse(ReplyTrailingBrace)

\* The regulation codes of a list that are not in the regulation taxonomy.
Unrecognized(codes) == {codes[i] : i \in 1..Len(codes)} \ regulations

\* C22: decoded values are not validated or coerced: a needs_compliance or a
\* confidence outside the enumerated sets and related regulations outside the
\* taxonomy pass through the parser unchanged, and are the final verdict's
\* values when no override fires.
C22_NoCoercion ==
    (Returned /\ call.kind = "returned")
        => /\ call.content = PyStr(ReplyLowercaseNo)
                 => /\ llm_results = Verdict(PyStr("no"), PyStr("nothing"),
                                             PyList(<<"LGPD">>), PyStr("certain"))
                    /\ Unrecognized(llm_results.related_regulations.l) = {"LGPD"}
                    /\ final_result.needs_compliance = PyStr("no")
                    /\ final_result.confidence = PyStr("certain")
                    /\ final_result.related_regulations = PyList(<<"LGPD">>)
           /\ call.content = PyStr(ReplyBoolVerdict)
                 => /\ llm_results.needs_compliance = PyBool("True")
                    /\ llm_results.confidence = PyInt("3")
                    /\ final_result.needs_compliance = PyBool("True")
                    /\ final_result.confidence = PyInt("3")
                    /\ final_result.related_regulations = PyList(<<"COPPA">>)
           /\ (llm_results.needs_compliance # No
                   /\ (llm_results.needs_compliance \notin Verdicts
                          \/ llm_results.confidence \notin
                                 {PyStr("high"), PyStr("medium"), PyStr("low")}
                          \/ Unrecognized(llm_results.related_regulations.l) # {}))
                 => /\ final_result.needs_compliance = llm_results.needs_compliance
                    /\ final_result.confidence = llm_results.confidence
                    /\ final_result.related_regulations = llm_results.related_regulations

C22_Witness ==
    /\ Returned /\ call = CallReturned(PyStr(ReplyLowercaseNo))
    /\ ~rule_results.needs_compliance
    /\ final_result.related_regulations = PyList(<<"LGPD">>)
    /\ final_result.confidence = PyStr("certain")

\* The document field ends in ".pdf", whatever the case of the letters.
LooksLikePdf(text) ==
    /\ Len(text) >= 4
    /\ SubSeq(text, Len(text) - 3, Len(text)) \in
           {a \o b \o c \o d : a \in {"."}, b \in {"p", "P"}, c \in {"d", "D"}, d \in {"f", "F"}}

\* C23: in analyze_feature a non-empty document field ending in ".pdf",
\* whatever its case, goes to text extraction and the extracted text is the
\* supporting text; if the extraction fails the supporting text is empty and
\* the classification still proceeds; any other document field is used as it
\* is; the keyword classifier and the model classifier get the same text.
C23_SupportingText ==
    (feature # "none")
        => /\ LooksLikePdf(documents)
                 => /\ pdf \in {"extracted", "failed"}
                    /\ pdf = "extracted" => document_text \in PdfTexts
                    /\ pdf = "failed" => document_text = ""
           /\ ~LooksLikePdf(documents)
                 => (pdf = "none" /\ document_text = documents)
           /\ prompt_text = document_text
           /\ (pc = "calling")
                 => \A i \in 1..Len(compliance_keywords) :
                       HasCategory(rule_results.found_keywords, compliance_keywords[i].category)
                           <=> CategoryOccurs(i, Lower(title \o " " \o description \o " " \o prompt_text))
           /\ calls >= 1
           /\ (Ended /\ pdf = "failed")
                 => (Returned \/ (RuleHigh /\ llm_results.needs_compliance = No))

\* An upper-case extension, the extraction fails, the feature is classified.
C23_Witness ==
    /\ Returned /\ documents = "Spec.PDF"
    /\ pdf = "failed" /\ document_text = "" /\ prompt_text = ""
    /\ final_result.needs_compliance = Yes

\* The other case of an ASCII letter, and a text with its letters changed to
\* upper case or to the other case.
RECURSIVE Upper(_)
RECURSIVE SwapCase(_)
UpperChar(c) ==
    IF \E i \in 1..Len(LowerChars) : CharAt(LowerChars, i) = c
    THEN CharAt(UpperChars, CHOOSE i \in 1..Len(LowerChars) : CharAt(LowerChars, i) = c)
    ELSE c
Upper(s) == IF s = "" THEN "" ELSE UpperChar(Head(s)) \o Upper(Tail(s))
SwapCase(s) ==
    IF s = "" THEN ""
    ELSE (IF UpperChar(Head(s)) # Head(s) THEN UpperChar(Head(s)) ELSE LowerChar(Head(s)))
             \o SwapCase(Tail(s))

\* C24: keyword matching is case-insensitive: changing the case of letters
\* (the ASCII letters, the alphabet of the taxonomy) of the title, the
\* description or the supporting text does not change the rule verdict
\* (needs_compliance, found_keywords, confidence).
C24_CaseInsensitive ==
    (pc = "calling")
        => /\ rule_results = rule_based_analysis(Upper(title), description, document_text)
           /\ rule_results = rule_based_analysis(title, SwapCase(description), document_text)
           /\ rule_results = rule_based_analysis(Lower(title), Upper(description),
                                                 SwapCase(document_text))

\* "minors" is matched in "MINORS", "data residency" in "Data Residency".
C24_Witness ==
    /\ pc = "calling"
    /\ description = "gate for MINORS under 18"
    /\ document_text = "Data Residency rules"
    /\ SwapCase(description) = "GATE FOR minors UNDER 18"
    /\ Upper(title) # title /\ Lower(title) # title
    /\ rule_results.found_keywords[1].keywords[Len(rule_results.found_keywords[1].keywords)]
           = "minors"
    /\ HasCategory(rule_results.found_keywords, "data_localization")

\* C25: when the override fires it changes only needs_compliance and
\* reasoning: the final title, related_regulations and confidence are the
\* input's and the model's, and the reported keywords are the rule verdict's
\* found_keywords, so that a final "Yes" can carry the confidence and the
\* regulations of a model "No".
C25_OverrideFrame ==
    (Returned /\ RuleHigh /\ llm_results.needs_compliance = No)
        => /\ final_result.title = title
           /\ final_result.related_regulations = llm_results.related_regulations
           /\ final_result.confidence = llm_results.confidence
           /\ final_result.rule_based_keywords = rule_results.found_keywords
           /\ final_result.needs_compliance = Yes
           /\ final_result.reasoning # llm_results.reasoning
           /\ call = CallReturned(PyStr(ReplyNoLowConfidence))
                 => /\ final_result.confidence = PyStr("low")
                    /\ final_result.related_regulations = PyList(<<"GDPR">>)

\* A final "Yes" with the confidence "low" and the regulations of a model "No".
C25_Witness ==
    /\ Returned /\ RuleHigh
    /\ call = CallReturned(PyStr(ReplyNoLowConfidence))
    /\ final_result.needs_compliance = Yes
    /\ final_result.confidence = PyStr("low")
    /\ final_result.related_regulations = PyList(<<"GDPR">>)
    /\ final_result.rule_based_keywords # <<>>

\* C26: a final verdict of exactly "No" is produced only when the rule
\* verdict's needs_compliance is false: no feature whose text holds a phrase
\* of a high-priority category ends with the final needs_compliance "No".
C26_NoOnlyWhenRuleFalse ==
    /\ (Returned /\ final_result.needs_compliance = No)
          => /\ ~rule_results.needs_compliance
             /\ ~HighPriorityOccurs(MatchedText)
             /\ llm_results.needs_compliance = No
    /\ (Returned /\ HighPriorityOccurs(MatchedText))
          => final_result.needs_compliance # No

\* A model "No" that stands: the text matches the privacy category only.
C26_Witness ==
    /\ Returned /\ final_result.needs_compliance = No
    /\ call = CallReturned(PyStr(ReplyNoLowConfidence))
    /\ HasCategory(rule_results.found_keywords, "privacy")
    /\ ~HighPriorityOccurs(MatchedText)

\* C27: the override compares the model's needs_compliance for equality with
\* "No": a negative verdict in another spelling ("no", "No.") is not
\* overridden even under a high-confidence rule verdict and is the final
\* needs_compliance unchanged, with the model's reasoning and no note.
C27_ExactNoOnly ==
    (Returned /\ RuleHigh)
        => /\ call = CallReturned(PyStr(ReplyLowercaseNo))
                 => /\ final_result.needs_compliance = PyStr("no")
                    /\ final_result.reasoning = PyStr("nothing")
           /\ call = CallReturned(PyStr(ReplyNoFullStop))
                 => /\ final_result.needs_compliance = PyStr("No.")
                    /\ final_result.reasoning = PyStr("not needed")
           /\ llm_results.needs_compliance # No
                 => /\ final_result.needs_compliance = llm_results.needs_compliance
                    /\ final_result.reasoning = llm_results.reasoning
           /\ final_result.needs_compliance = Yes
                 => llm_results.needs_compliance \in {Yes, No}

C27_Witness ==
    /\ Returned /\ RuleHigh
    /\ call = CallReturned(PyStr(ReplyNoFullStop))
    /\ final_result.needs_compliance = PyStr("No.")
    /\ final_result.reasoning = PyStr("not needed")

\* The text of found_keywords in the note: the part between the braces.
NoteMapping(note) ==
    SubSeq(note, FindChar(note, "{", 1), FindLastChar(note, "}"))

\* The entry of a category as the note renders it.
NoteEntry(e) ==
    "'" \o e.category \o "': ['"
        \o Join("', '", e.keywords) \o "']"

\* C28: the note the override appends to the reasoning lists the rule
\* verdict's whole found_keywords: every matched category with its phrases,
\* the categories that are not high-priority included, and not only the
\* matches that caused the override.
C28_NoteListsAllCategories ==
    (Returned /\ RuleHigh /\ llm_results.needs_compliance = No
         /\ llm_results.reasoning.t = "str")
        => /\ StartsWith(AppendedNote, " (Overridden by rule-based analysis: found keywords {")
           /\ EndsWith(AppendedNote, "})")
           /\ NoteMapping(AppendedNote)
                  = "{" \o Join(", ", [k \in 1..Len(rule_results.found_keywords) |->
                                          NoteEntry(rule_results.found_keywords[k])]) \o "}"
           /\ \A i \in 1..Len(compliance_keywords) :
                 PhrasesOccurring(i, MatchedText) # {}
                     => Contains("'" \o compliance_keywords[i].category \o "': [", AppendedNote)

\* An override caused by age_gate whose note also lists the privacy matches.
C28_Witness ==
    /\ Returned /\ call = CallReturned(PyStr(ReplyNo))
    /\ title = "Age Gate" /\ description = "privacy policy and user data"
    /\ document_text = ""
    /\ final_result.reasoning =
           PyStr("No compliance needed (Overridden by rule-based analysis: found keywords "
                     \o "{'age_gate': ['age gate'], 'privacy': ['privacy policy', 'user data']})")

\* The phrase is among the matched phrases of the rule verdict.
InFound(phrase) ==
    \E k \in 1..Len(rule_results.found_keywords) :
        \E a \in 1..Len(rule_results.found_keywords[k].keywords) :
            rule_results.found_keywords[k].keywords[a] = phrase

\* The phrase occurs in the three texts joined by single spaces and in none of
\* the three alone.
SpansBoundary(phrase) ==
    /\ Contains(phrase, Lower(title) \o " " \o Lower(description) \o " " \o Lower(document_text))
    /\ ~Contains(phrase, Lower(title))
    /\ ~Contains(phrase, Lower(description))
    /\ ~Contains(phrase, Lower(document_text))

\* C29: the title, the description and the supporting text are joined with
\* single spaces before matching, so a trigger phrase that spans a field
\* boundary is matched although no single field holds it.
C29_BoundaryMatch ==
    (pc = "calling")
        => /\ \A i \in 1..Len(compliance_keywords) :
                 \A j \in 1..Len(compliance_keywords[i].keywords) :
                     SpansBoundary(compliance_keywords[i].keywords[j])
                         => InFound(compliance_keywords[i].keywords[j])
           /\ (EndsWith(Lower(title), "age") /\ StartsWith(Lower(description), "gate"))
                 => (InFound("age gate") /\ rule_results.needs_compliance)

\* A title ending in "age" and a description starting with "gate".
C29_Witness ==
    /\ pc = "calling"
    /\ title = "Content age" /\ description = "gate for MINORS under 18"
    /\ SpansBoundary("age gate")
    /\ InFound("age gate")
    /\ rule_results.found_keywords[1] =
           [category |-> "age_gate", keywords |-> <<"age gate", "under 18", "minors">>]

\* The cell is missing in the input table.
Missing(cell) == cell.t = "float"

\* The cell holds text that is empty once trimmed.
Blank(cell) == cell.t = "str" /\ Strip(cell.s) = ""

\* The text that stands for a cell: "nan" for a missing one.
TextOrNan(cell) == IF Missing(cell) THEN "nan" ELSE Strip(cell.s)

\* The row the loop is at.
CurrentRow == df.rows[index + 1]

\* A step that skips the current row: that row has a blank title or description.
C30_SkipStep ==
    (Batch /\ pc = "loop" /\ index' = index + 1)
        => (Blank(CurrentRow.Title) \/ Blank(CurrentRow.Description))

\* A step that takes in the result of a call: the result carries the text that
\* stands for the title cell.
C30_EmitStep ==
    (Batch /\ pc = "calling" /\ pc' = "loop")
        => /\ Len(results') = Len(results) + 1
           /\ results'[Len(results')].title = TextOrNan(CurrentRow.Title)

====
